---- MODULE Spec2Model ----
(***************************************************************************)
(* Model of src/pr_2.py: the bounded, filtered breadth-first construction  *)
(* of a package dependency graph (build_dependency_graph), the depth-first *)
(* post-order installation order (get_installation_order) and the D2 text  *)
(* emission (generate_d2), driven as main() drives them over a local test  *)
(* catalog (get_dependencies_from_test_repo).                              *)
(*                                                                         *)
(* Strings that the program inspects character by character (package      *)
(* names, the filter substring, the D2 text) are sequences of one-letter   *)
(* strings.  A Python dict is the sequence of its items in insertion order.*)
(* An optional value (a Python variable not yet bound, or None) is the     *)
(* empty sequence, a bound one is a one-element sequence.                  *)
(***************************************************************************)
EXTENDS Integers, Sequences, FiniteSets, TLC

\* ------------------------------------------------------------------ bounds

\* max_depth ranges over 0..MaxDepthBound.
MaxDepthBound == 3

\* The catalogs considered hold at most MaxEdges dependency entries in total.
MaxEdges == 3

\* A D field of the index holds at most MaxTokens dependency entries.
MaxTokens == 2

\* ------------------------------------------------------------ input domains

Names == {<<"r">>, <<"a">>, <<"a", "b">>}

RootName == <<"r">>

\* filter_substring as build_dependency_graph can be given it: empty, matching
\* some names ("a" is in "a" and in "ab"), matching the root only, matching none.
Filters == {<<>>, <<"a">>, <<"r">>, <<"z">>}

Versions == {"1.0", "2.0"}

RootVersion == "2.0"

\* The version every non-root name is looked up with.
FallbackVersion == "1.0"

None == <<>>

Some(x) == <<x>>

\* ------------------------------------------------------------ pure helpers

\* Python's `sub in s` on strings.
Contains(sub, s) ==
    \E i \in 0..(Len(s) - Len(sub)) : SubSeq(s, i + 1, i + Len(sub)) = sub

\* dict: keys, membership, d.get(k, default), d[k] = v.
DictKeys(d) == {d[i].pkg : i \in DOMAIN d}

DictGet(d, k, default) ==
    IF \E i \in DOMAIN d : d[i].pkg = k
    THEN d[CHOOSE i \in DOMAIN d : d[i].pkg = k].deps
    ELSE default

DictSet(d, k, v) ==
    IF \E i \in DOMAIN d : d[i].pkg = k
    THEN [i \in DOMAIN d |-> IF d[i].pkg = k THEN [pkg |-> k, deps |-> v] ELSE d[i]]
    ELSE Append(d, [pkg |-> k, deps |-> v])

\* ------------------------------------------------------- the local catalog

\* One value of the JSON catalog: a package object, no entry at all, or a
\* value that is not an object (a malformed catalog).
PkgEntries(n) ==
    [kind : {"pkg"}, version : Versions, dependencies : [1..n -> Names]]

OtherEntries ==
    {[kind |-> k, version |-> "", dependencies |-> <<>>] : k \in {"absent", "malformed"}}

EntriesOfLen(n) == PkgEntries(n) \cup (IF n = 0 THEN OtherEntries ELSE {})

\* get_dependencies_from_test_repo: None for an unknown name or another
\* version, the dependency list otherwise; pkg.get on a value that is not an
\* object raises AttributeError.
get_dependencies_from_test_repo(repo, name, version) ==
    LET pkg == repo[name] IN
    IF pkg.kind = "absent" THEN [kind |-> "None", deps |-> <<>>, exc |-> ""]
    ELSE IF pkg.kind = "malformed"
         THEN [kind |-> "raise", deps |-> <<>>, exc |-> "AttributeError"]
    ELSE IF pkg.version # version THEN [kind |-> "None", deps |-> <<>>, exc |-> ""]
    ELSE [kind |-> "list", deps |-> pkg.dependencies, exc |-> ""]

\* ------------------------------------------------------ the remote index

\* d.startswith(prefix)
StartsWith(d, prefix) ==
    Len(d) >= Len(prefix) /\ SubSeq(d, 1, Len(prefix)) = prefix

\* d.split(sep)[0]: what precedes the first sep (all of d without one).
BeforeFirst(d, sep) ==
    IF \E i \in DOMAIN d : d[i] = sep
    THEN SubSeq(d, 1, (CHOOSE i \in DOMAIN d :
                          d[i] = sep /\ \A j \in 1..(i - 1) : d[j] # sep) - 1)
    ELSE d

\* deps_raw.split(): the maximal runs without a blank.
RECURSIVE SplitBlanks(_)
SplitBlanks(text) ==
    IF text = <<>> THEN <<>>
    ELSE IF Head(text) = " " THEN SplitBlanks(Tail(text))
    ELSE LET word == BeforeFirst(text, " ")
         IN <<word>> \o SplitBlanks(SubSeq(text, Len(word) + 1, Len(text)))

\* The separators in the order line 87 tries them.
Separators == <<"=", ">", "<", "!">>

\* for sep in [...]: if sep in d: d = d.split(sep)[0]; break
RECURSIVE StripConstraint(_, _)
StripConstraint(d, k) ==
    IF k > Len(Separators) THEN d
    ELSE IF Contains(<<Separators[k]>>, d) THEN BeforeFirst(d, Separators[k])
    ELSE StripConstraint(d, k + 1)

\* The loop of lines 84-91 over deps from position i.
RECURSIVE CleanDeps(_, _)
CleanDeps(deps, i) ==
    IF i > Len(deps) THEN <<>>
    ELSE IF StartsWith(deps[i], <<"s", "o", ":">>) THEN CleanDeps(deps, i + 1)
    ELSE <<StripConstraint(deps[i], 1)>> \o CleanDeps(deps, i + 1)

\* get_dependencies_from_apkindex: None without a record of that name and
\* version, [] for an empty D, the cleaned entries otherwise.
get_dependencies_from_apkindex(pkgs, name, version) ==
    LET found == SelectSeq(pkgs, LAMBDA p : p.P = name /\ p.V = version)
    IN IF found = <<>> THEN [kind |-> "None", deps |-> <<>>, exc |-> ""]
       ELSE IF found[1].D = <<>> THEN [kind |-> "list", deps |-> <<>>, exc |-> ""]
       ELSE [kind |-> "list", deps |-> CleanDeps(SplitBlanks(found[1].D), 1), exc |-> ""]

\* The entries a D field is made of: an optional so: prefix, a name, an
\* optional version constraint.
RawPrefixes == {<<>>, <<"s", "o", ":">>}

RawConstraints ==
    {<<>>, <<"=", "1">>, <<">", "1">>, <<"<", "1">>, <<">", "=", "1">>,
     <<"<", "=", "1">>, <<"!", "=", "1">>}

RawEntries ==
    {p \o n \o c : p \in RawPrefixes, n \in {<<"a">>, <<"a", "b">>}, c \in RawConstraints}

\* The D field holding the given entries, one blank between two of them.
RECURSIVE DField(_)
DField(entries) ==
    IF entries = <<>> THEN <<>>
    ELSE IF Len(entries) = 1 THEN entries[1]
    ELSE entries[1] \o <<" ">> \o DField(Tail(entries))

\* -------------------------------------------------- build_dependency_graph

\* A faulty version argument: start_version for every name.
LookupVersionAlwaysStart(current, start_package, start_version) == start_version

\* The version argument of the lookup (line 120).
LookupVersion(current, start_package, start_version) ==
    IF current = start_package THEN start_version ELSE FallbackVersion

\* A faulty cutoff test: depth > max_depth.
AtCutoffStrict(depth, max_depth) == depth > max_depth

\* if depth >= max_depth: continue
AtCutoff(depth, max_depth) == depth >= max_depth

\* A faulty handling of None: without the test, iterating None raises TypeError.
DepsOrEmptyUnchecked(res) ==
    IF res.kind = "None" THEN [kind |-> "raise", deps |-> <<>>, exc |-> "TypeError"]
    ELSE res

\* if deps is None: deps = []
DepsOrEmpty(res) ==
    IF res.kind = "None" THEN [kind |-> "list", deps |-> <<>>, exc |-> ""] ELSE res

\* A faulty filter: `in` for `not in`.
FilterDepsKeepMatching(deps, filter_substring) ==
    SelectSeq(deps, LAMBDA d : Contains(filter_substring, d))

\* [d for d in deps if filter_substring not in d]
FilterDeps(deps, filter_substring) ==
    SelectSeq(deps, LAMBDA d : ~Contains(filter_substring, d))

RECURSIVE EnqueueDeps(_, _, _, _)
RECURSIVE EnqueueDepsUnchecked(_, _, _, _)
RECURSIVE EnqueueDepsNoMark(_, _, _, _)

\* A faulty loop: the test `dep not in visited` is missing.
EnqueueDepsUnchecked(vq, deps, i, depth) ==
    IF i > Len(deps) THEN vq
    ELSE EnqueueDepsUnchecked([visited |-> vq.visited \cup {deps[i]},
                               queue |-> Append(vq.queue, <<deps[i], depth + 1>>)],
                              deps, i + 1, depth)

\* A faulty loop: visited.add(dep) is missing.
EnqueueDepsNoMark(vq, deps, i, depth) ==
    IF i > Len(deps) THEN vq
    ELSE IF deps[i] \notin vq.visited
         THEN EnqueueDepsNoMark([visited |-> vq.visited,
                                 queue |-> Append(vq.queue, <<deps[i], depth + 1>>)],
                                deps, i + 1, depth)
         ELSE EnqueueDepsNoMark(vq, deps, i + 1, depth)

\* The for loop of lines 127-130 over filtered_deps from position i, on the
\* pair (visited, queue).
EnqueueDeps(vq, deps, i, depth) ==
    IF i > Len(deps) THEN vq
    ELSE IF deps[i] \notin vq.visited
         THEN EnqueueDeps([visited |-> vq.visited \cup {deps[i]},
                           queue |-> Append(vq.queue, <<deps[i], depth + 1>>)],
                          deps, i + 1, depth)
         ELSE EnqueueDeps(vq, deps, i + 1, depth)

\* A faulty dequeue: queue[0] is read and never removed.
PeekLeft(q) == q

\* queue.popleft(): what is left in the queue.
PopLeft(q) == Tail(q)

\* ------------------------------------------------- get_installation_order

RECURSIVE dfs(_, _, _)
RECURSIVE dfsChildren(_, _, _, _)

\* A faulty walk: the node is appended on entry, before its dependencies.
dfsPreOrder(graph, st, node) ==
    IF node \in st.visited THEN st
    ELSE dfsChildren(graph,
                     [visited |-> st.visited \cup {node},
                      installed |-> Append(st.installed, node)],
                     DictGet(graph, node, <<>>), 1)

\* A faulty walk: a name that is no key of the graph is not appended.
dfsKeysOnly(graph, st, node) ==
    IF node \in st.visited \/ node \notin DictKeys(graph) THEN st
    ELSE LET entered == [st EXCEPT !.visited = @ \cup {node}]
             after == dfsChildren(graph, entered, DictGet(graph, node, <<>>), 1)
         IN [after EXCEPT !.installed = Append(@, node)]

\* def dfs(node), on the pair (visited, installed).
dfs(graph, st, node) ==
    IF node \in st.visited THEN st
    ELSE LET entered == [st EXCEPT !.visited = @ \cup {node}]
             after == dfsChildren(graph, entered, DictGet(graph, node, <<>>), 1)
         IN [after EXCEPT !.installed = Append(@, node)]

dfsChildren(graph, st, deps, i) ==
    IF i > Len(deps) THEN st
    ELSE dfsChildren(graph, dfs(graph, st, deps[i]), deps, i + 1)

\* A faulty result: installed.insert(0, node) for installed.append(node).
get_installation_order_reversed(graph, start_package) ==
    LET o == dfs(graph, [visited |-> {}, installed |-> <<>>], start_package).installed
    IN [i \in 1..Len(o) |-> o[Len(o) + 1 - i]]

get_installation_order(graph, start_package) ==
    dfs(graph, [visited |-> {}, installed |-> <<>>], start_package).installed

\* ------------------------------------------------------------- generate_d2

Quote == "\""

DirectionLine ==
    <<"d", "i", "r", "e", "c", "t", "i", "o", "n", ":", " ", "r", "i", "g", "h", "t">>

\* f'"{pkg}"'
NodeLine(pkg) == <<Quote>> \o pkg \o <<Quote>>

\* f'"{pkg}" -> "{dep}"'
EdgeLine(pkg, dep) ==
    <<Quote>> \o pkg \o <<Quote, " ", "-", ">", " ", Quote>> \o dep \o <<Quote>>

\* A faulty body of the loop: the `else` is missing, the node line is always
\* appended.
ItemLinesNoElse(item) ==
    <<NodeLine(item.pkg)>> \o
        [j \in 1..Len(item.deps) |-> EdgeLine(item.pkg, item.deps[j])]

\* The lines one dict item appends (lines 160-164).
ItemLines(item) ==
    IF item.deps = <<>> THEN <<NodeLine(item.pkg)>>
    ELSE [j \in 1..Len(item.deps) |-> EdgeLine(item.pkg, item.deps[j])]

RECURSIVE D2Lines(_, _)
D2Lines(graph, i) ==
    IF i > Len(graph) THEN <<>>
    ELSE ItemLines(graph[i]) \o D2Lines(graph, i + 1)

\* "\n".join(lines)
RECURSIVE Join(_, _)
Join(lines, i) ==
    IF i > Len(lines) THEN <<>>
    ELSE IF i = Len(lines) THEN lines[i]
    ELSE lines[i] \o <<"\n">> \o Join(lines, i + 1)

generate_d2(graph) == Join(<<DirectionLine>> \o D2Lines(graph, 1), 1)

\* ------------------------------------------------------------------- state

VARIABLES
    config,         \* the validated configuration record read by main
    repo,           \* the catalog loaded by load_test_repo
    pc,             \* where main is: "resolve", "sequence", "render", "done", "failed"
    graph,          \* build_dependency_graph's local dict
    visited,        \* build_dependency_graph's local set
    queue,          \* build_dependency_graph's local deque of (name, depth)
    calls,          \* the calls made to get_deps_func so far, in order
    result,         \* main's `graph`: unbound until build_dependency_graph returns
    install_order,  \* main's `install_order`
    d2_content,     \* main's `d2_content`
    error,          \* the exception main caught, if any
    packages,       \* the records parse_apkindex returned (remote mode)
    apk_deps,       \* what get_dependencies_from_apkindex returned
    previous        \* the graph an earlier call of build_dependency_graph returned

vars == <<config, repo, pc, graph, visited, queue, calls, result, install_order,
          d2_content, error, packages, apk_deps, previous>>

\* What a run of main in local mode never touches.
aux == <<packages, apk_deps, previous>>

TotalEdges(lens) == lens[1] + lens[2] + lens[3]

Init ==
    /\ \E depth \in 0..MaxDepthBound, f \in Filters :
          config = [package_name |-> RootName, package_version |-> RootVersion,
                    depth |-> depth, filter_substring |-> f]
    /\ \E lens \in {l \in [1..3 -> 0..MaxEdges] : TotalEdges(l) <= MaxEdges} :
          \E e1 \in EntriesOfLen(lens[1]), e2 \in EntriesOfLen(lens[2]),
             e3 \in EntriesOfLen(lens[3]) :
             repo = [n \in Names |-> IF n = <<"r">> THEN e1
                                     ELSE IF n = <<"a">> THEN e2 ELSE e3]
    /\ pc = "resolve"
    /\ graph = <<>>
    /\ visited = {config.package_name}
    /\ queue = <<<<config.package_name, 0>>>>
    /\ calls = <<>>
    /\ result = None
    /\ install_order = None
    /\ d2_content = None
    /\ error = None
    /\ packages = <<>>
    /\ apk_deps = None
    /\ previous = None

\* A faulty handling of the exception: the loop is left and the graph built so
\* far is returned.
ReturnPartial(exc) ==
    /\ pc' = "sequence"
    /\ result' = Some(graph)
    /\ UNCHANGED <<graph, visited, queue, install_order, d2_content, error>>

\* What an exception raised by get_deps_func does to the run: nothing in
\* build_dependency_graph catches it, main's `except Exception` does.
Propagate(exc) ==
    /\ pc' = "failed"
    /\ error' = Some(exc)
    /\ UNCHANGED <<graph, visited, queue, result, install_order, d2_content>>

\* One iteration of the while loop that stops at the depth limit (116-118).
SkipAtDepth ==
    /\ pc = "resolve"
    /\ queue # <<>>
    /\ AtCutoff(Head(queue)[2], config.depth)
    /\ queue' = PopLeft(queue)
    /\ UNCHANGED <<config, repo, pc, graph, visited, calls, result, install_order,
                   d2_content, error>>
    /\ UNCHANGED aux

\* One iteration of the while loop that expands a name (116-130).
Expand ==
    /\ pc = "resolve"
    /\ queue # <<>>
    /\ LET current == Head(queue)[1]
           depth == Head(queue)[2]
           version == LookupVersion(current, config.package_name, config.package_version)
           res == DepsOrEmpty(get_dependencies_from_test_repo(repo, current, version))
           filtered_deps == FilterDeps(res.deps, config.filter_substring)
           vq == EnqueueDeps([visited |-> visited, queue |-> PopLeft(queue)],
                             filtered_deps, 1, depth)
       IN /\ ~AtCutoff(depth, config.depth)
          /\ calls' = Append(calls, [name |-> current, version |-> version])
          /\ IF res.kind = "raise"
             THEN Propagate(res.exc)
             ELSE /\ graph' = DictSet(graph, current, filtered_deps)
                  /\ visited' = vq.visited
                  /\ queue' = vq.queue
                  /\ UNCHANGED <<pc, result, install_order, d2_content, error>>
    /\ UNCHANGED <<config, repo>>
    /\ UNCHANGED aux

\* The loop ends, build_dependency_graph returns and main binds `graph` (132, 196).
Return ==
    /\ pc = "resolve"
    /\ queue = <<>>
    /\ result' = Some(graph)
    /\ pc' = "sequence"
    /\ UNCHANGED <<config, repo, graph, visited, queue, calls, install_order,
                   d2_content, error>>
    /\ UNCHANGED aux

\* A faulty walk: graph.setdefault(node, []) for graph.get(node, []), which
\* makes a key of every name the walk reaches.
SequenceSetDefault ==
    /\ pc = "sequence"
    /\ LET order == get_installation_order(result[1], config.package_name)
           missing == SelectSeq(order, LAMBDA n : n \notin DictKeys(result[1]))
       IN /\ install_order' = Some(order)
          /\ result' = Some(result[1] \o
                              [i \in 1..Len(missing) |-> [pkg |-> missing[i], deps |-> <<>>]])
    /\ pc' = "render"
    /\ UNCHANGED <<config, repo, graph, visited, queue, calls, d2_content, error>>
    /\ UNCHANGED aux

\* main, line 207.
Sequence ==
    /\ pc = "sequence"
    /\ install_order' = Some(get_installation_order(result[1], config.package_name))
    /\ pc' = "render"
    /\ UNCHANGED <<config, repo, graph, visited, queue, calls, result, d2_content, error>>
    /\ UNCHANGED aux

\* main, line 222.
Render ==
    /\ pc = "render"
    /\ d2_content' = Some(generate_d2(result[1]))
    /\ pc' = "done"
    /\ UNCHANGED <<config, repo, graph, visited, queue, calls, result, install_order,
                   error>>
    /\ UNCHANGED aux

Next == SkipAtDepth \/ Expand \/ Return \/ Sequence \/ Render

Spec == Init /\ [][Next]_vars

\* build_dependency_graph on its own, from the call to the return.
ResolveNext == SkipAtDepth \/ Expand \/ Return

\* The program is sequential: the loop takes each step it can take.
FairSpec == Init /\ [][ResolveNext]_vars /\ WF_vars(ResolveNext)

\* ---------------------------------------------- a lookup in the remote index

\* The index holds one record of package "a"; nothing else of the program runs.
ApkInit ==
    /\ \E v \in Versions, n \in 0..MaxTokens :
          \E entries \in [1..n -> RawEntries] :
             packages = <<[P |-> <<"a">>, V |-> v, D |-> DField(entries)]>>
    /\ config = [package_name |-> <<"a">>, package_version |-> RootVersion,
                 depth |-> 0, filter_substring |-> <<"z">>]
    /\ repo = [n \in Names |-> [kind |-> "absent", version |-> "", dependencies |-> <<>>]]
    /\ pc = "lookup"
    /\ graph = <<>>
    /\ visited = {}
    /\ queue = <<>>
    /\ calls = <<>>
    /\ result = None
    /\ install_order = None
    /\ d2_content = None
    /\ error = None
    /\ apk_deps = None
    /\ previous = None

\* get_deps(name, ver) as main binds it in remote mode (line 189).
ApkLookup ==
    /\ pc = "lookup"
    /\ \E name \in {<<"a">>, <<"r">>}, version \in Versions :
          /\ apk_deps' = Some(get_dependencies_from_apkindex(packages, name, version))
          /\ calls' = Append(calls, [name |-> name, version |-> version])
    /\ pc' = "looked_up"
    /\ UNCHANGED <<config, repo, graph, visited, queue, result, install_order,
                   d2_content, error, packages, previous>>

ApkSpec == ApkInit /\ [][ApkLookup]_vars

\* ------------------------------------ build_dependency_graph called twice

\* A faulty set-up: visited outlives the call (a module-level set).
NewCallStaleVisited(start_package) ==
    [graph |-> <<>>, visited |-> visited \cup {start_package},
     queue |-> <<<<start_package, 0>>>>]

\* The locals a call of build_dependency_graph starts with (lines 109-113).
NewCall(start_package) ==
    [graph |-> <<>>, visited |-> {start_package}, queue |-> <<<<start_package, 0>>>>]

\* The caller keeps the returned graph and calls build_dependency_graph again
\* with the same arguments.
CallAgain ==
    /\ pc = "sequence"
    /\ previous = None
    /\ previous' = result
    /\ result' = None
    /\ LET fresh == NewCall(config.package_name)
       IN /\ graph' = fresh.graph
          /\ visited' = fresh.visited
          /\ queue' = fresh.queue
    /\ calls' = <<>>
    /\ pc' = "resolve"
    /\ UNCHANGED <<config, repo, install_order, d2_content, error, packages, apk_deps>>

TwiceNext == SkipAtDepth \/ Expand \/ Return \/ CallAgain

TwiceSpec == Init /\ [][TwiceNext]_vars

\* ------------------------------------------- resolve over a wider catalog

\* Four names, so that the queue can hold names of two depths at once; every
\* name is either unknown or known under the version it is looked up with.
WideNames == Names \cup {<<"c">>}

WideEntries(name, n) ==
    [kind : {"pkg"},
     version : {IF name = RootName THEN RootVersion ELSE FallbackVersion},
     dependencies : [1..n -> WideNames]]
      \cup (IF n = 0
            THEN {[kind |-> "absent", version |-> "", dependencies |-> <<>>]}
            ELSE {})

WideInit ==
    /\ \E depth \in 0..MaxDepthBound, f \in {<<"a">>, <<"z">>} :
          config = [package_name |-> RootName, package_version |-> RootVersion,
                    depth |-> depth, filter_substring |-> f]
    /\ \E lens \in {l \in [WideNames -> 0..MaxEdges] :
                       l[<<"r">>] + l[<<"a">>] + l[<<"a", "b">>] + l[<<"c">>] <= MaxEdges} :
          \E e1 \in WideEntries(<<"r">>, lens[<<"r">>]),
             e2 \in WideEntries(<<"a">>, lens[<<"a">>]),
             e3 \in WideEntries(<<"a", "b">>, lens[<<"a", "b">>]),
             e4 \in WideEntries(<<"c">>, lens[<<"c">>]) :
             repo = [n \in WideNames |->
                        IF n = <<"r">> THEN e1
                        ELSE IF n = <<"a">> THEN e2
                        ELSE IF n = <<"a", "b">> THEN e3 ELSE e4]
    /\ pc = "resolve"
    /\ graph = <<>>
    /\ visited = {config.package_name}
    /\ queue = <<<<config.package_name, 0>>>>
    /\ calls = <<>>
    /\ result = None
    /\ install_order = None
    /\ d2_content = None
    /\ error = None
    /\ packages = <<>>
    /\ apk_deps = None
    /\ previous = None

WideSpec == WideInit /\ [][ResolveNext]_vars

\* ------------------------------------------------- vocabulary of the claims

\* The graph resolve returned and the order sequence returned.
ResolvedGraph == result[1]

InstallOrder == install_order[1]

Root == config.package_name

\* What the source reports for a name in this run: lookup(name, versionFor(name)).
SourceLookup(name) ==
    get_dependencies_from_test_repo(repo, name,
        IF name = Root THEN config.package_version ELSE FallbackVersion)

SourceList(name) ==
    IF SourceLookup(name).kind = "list" THEN SourceLookup(name).deps ELSE <<>>

Edges(g) ==
    UNION {{<<g[i].pkg, g[i].deps[j]>> : j \in DOMAIN g[i].deps} : i \in DOMAIN g}

RECURSIVE ReachFrom(_, _)
ReachFrom(g, S) ==
    LET N == S \cup {e[2] : e \in {e \in Edges(g) : e[1] \in S}}
    IN IF N = S THEN S ELSE ReachFrom(g, N)

Occurrences(seq, x) == Cardinality({i \in DOMAIN seq : seq[i] = x})

Precedes(seq, x, y) == \E i, j \in DOMAIN seq : seq[i] = x /\ seq[j] = y /\ i < j

\* -------------------------------------------------------------------- C1

\* C1 as stated: with maxDepth = 0 the returned graph has exactly one key, the
\* root, mapped to an empty dependency list.
C1_RootIsOnlyKey ==
    (config.depth = 0 /\ result # None)
        => ResolvedGraph = <<[pkg |-> Root, deps |-> <<>>]>>

\* C1 as amended: with maxDepth = 0 the returned graph is empty (the root is
\* dequeued at the cutoff, so it is no key and no lookup is made), whatever the
\* source would report for the root.
C1_EmptyGraphAtDepthZero ==
    (config.depth = 0 /\ result # None)
        => (ResolvedGraph = <<>> /\ calls = <<>>)

C1_Witness ==
    /\ config.depth = 0
    /\ result # None
    /\ SourceList(Root) # <<>>

\* -------------------------------------------------------------------- C2

\* C2: with an empty excludeSubstring no dependency is dropped: every expanded
\* name's list equals the list lookup returned (empty on NOT_FOUND).
C2_EmptyFilterDropsNothing ==
    config.filter_substring = <<>>
        => \A i \in DOMAIN graph : graph[i].deps = SourceList(graph[i].pkg)

\* -------------------------------------------------------------------- C3

\* The root and another name depend on each other in the resolved graph.
MutualWithRoot(b) ==
    /\ b # Root
    /\ <<Root, b>> \in Edges(ResolvedGraph)
    /\ <<b, Root>> \in Edges(ResolvedGraph)

\* C3 as stated: in a two-cycle A <-> B resolved from root A with maxDepth >= 2,
\* A and B occur once each in the install order and the first-discovered one,
\* A, precedes B.
C3_FirstDiscoveredFirst ==
    (install_order # None /\ config.depth >= 2)
        => \A b \in Names : MutualWithRoot(b) =>
              /\ Occurrences(InstallOrder, Root) = 1
              /\ Occurrences(InstallOrder, b) = 1
              /\ Precedes(InstallOrder, Root, b)

\* C3 as amended: A and B occur once each and the first-discovered one, A (the
\* node the traversal enters first), comes after B: post-order appends a node
\* only after its dependencies.
C3_FirstDiscoveredLast ==
    (install_order # None /\ config.depth >= 2)
        => \A b \in Names : MutualWithRoot(b) =>
              /\ Occurrences(InstallOrder, Root) = 1
              /\ Occurrences(InstallOrder, b) = 1
              /\ Precedes(InstallOrder, b, Root)

C3_Witness ==
    /\ install_order # None
    /\ config.depth >= 2
    /\ \E b \in Names : MutualWithRoot(b)

\* -------------------------------------------------------------------- C4

\* The edge a -> b lies on a cycle of g: a is reachable from b.
ClosesCycle(g, a, b) == a \in ReachFrom(g, {b})

Acyclic(g) == \A e \in Edges(g) : ~ClosesCycle(g, e[1], e[2])

ExampleGraph ==
    <<[pkg |-> <<"r">>, deps |-> << <<"a">>, <<"a", "b">> >>],
      [pkg |-> <<"a">>, deps |-> <<>>],
      [pkg |-> <<"a", "b">>, deps |-> << <<"a">> >>]>>

QueuedNames == {queue[i][1] : i \in DOMAIN queue}

CalledNames == {calls[i].name : i \in DOMAIN calls}

\* C5: with a non-empty excludeSubstring no dependency list holds a name that
\* contains it, and no such name other than the root is enqueued, looked up or
\* made a key.
C5_FilteredNamesNeverAppear ==
    config.filter_substring # <<>> =>
        /\ \A e \in Edges(graph) : ~Contains(config.filter_substring, e[2])
        /\ \A n \in visited \cup QueuedNames \cup CalledNames \cup DictKeys(graph) :
              n = Root \/ ~Contains(config.filter_substring, n)

C5_Witness ==
    /\ pc = "sequence"
    /\ config.filter_substring = <<"a">>
    /\ \E n \in DictKeys(graph) :
          /\ \E j \in DOMAIN SourceList(n) : SourceList(n)[j] = <<"a", "b">>
          /\ DictGet(graph, n, <<>>) # <<>>

\* -------------------------------------------------------------------- C6

LastCall == calls[Len(calls)]

\* The loop iteration about to run expands a name the source does not know.
ExpandsNotFound ==
    /\ pc = "resolve"
    /\ queue # <<>>
    /\ Head(queue)[2] < config.depth
    /\ SourceLookup(Head(queue)[1]).kind = "None"

\* C6: a NOT_FOUND lookup of a name dequeued below maxDepth makes the name a key
\* with an empty list, raises nothing and leaves the rest of the queue to be
\* processed; an error is only ever caused by a lookup that raised; with
\* maxDepth >= 1 and a NOT_FOUND root the graph is {root: []} and the install
\* order [root].
C6_NotFoundIsEmpty ==
    /\ [][ExpandsNotFound =>
            /\ graph' = Append(graph, [pkg |-> Head(queue)[1], deps |-> <<>>])
            /\ queue' = Tail(queue)
            /\ visited' = visited
            /\ pc' = "resolve"
            /\ error' = None]_vars
    /\ [](pc = "failed" => SourceLookup(LastCall.name).kind = "raise")
    /\ []((result # None /\ config.depth >= 1 /\ SourceLookup(Root).kind = "None")
            => /\ ResolvedGraph = <<[pkg |-> Root, deps |-> <<>>]>>
               /\ install_order # None => InstallOrder = <<Root>>)

C6_Witness ==
    /\ install_order # None
    /\ \E i, j \in DOMAIN graph :
          /\ i < j
          /\ SourceLookup(graph[i].pkg).kind = "None"
          /\ graph[i].deps = <<>>

\* -------------------------------------------------------------------- C7

\* C7: the install order holds every name reachable from start along graph
\* edges exactly once, keys or not, and no other name.
C7_ReachableExactlyOnce ==
    install_order # None =>
        /\ \A i \in DOMAIN InstallOrder :
              InstallOrder[i] \in ReachFrom(ResolvedGraph, {Root})
        /\ \A n \in ReachFrom(ResolvedGraph, {Root}) : Occurrences(InstallOrder, n) = 1

C7_Witness ==
    /\ install_order # None
    /\ \E e \in Edges(ResolvedGraph) : ClosesCycle(ResolvedGraph, e[1], e[2])
    /\ \E i \in DOMAIN InstallOrder : InstallOrder[i] \notin DictKeys(ResolvedGraph)

\* -------------------------------------------------------------------- C8

\* C8: resolve terminates for every catalog, cyclic or self-dependent, and every
\* maxDepth: eventually the queue is empty and the graph returned (or a lookup
\* raised and the run failed).
C8_ResolveTerminates ==
    <>(pc = "failed" \/ (pc # "resolve" /\ queue = <<>> /\ result # None))

C8_Witness ==
    /\ result # None
    /\ \E n \in DictKeys(ResolvedGraph) : <<n, n>> \in Edges(ResolvedGraph)
    /\ \E e \in Edges(ResolvedGraph) : e[1] # e[2] /\ ClosesCycle(ResolvedGraph, e[1], e[2])

\* -------------------------------------------------------------------- C9

\* Some lookup made so far raised.
LookupRaised ==
    \E i \in DOMAIN calls :
        get_dependencies_from_test_repo(repo, calls[i].name, calls[i].version).kind
            = "raise"

\* C9: once a lookup has raised, no graph is returned, the exception reaches
\* main as raised, and neither sequence nor render runs.
C9_AllOrNothing ==
    LookupRaised =>
        /\ pc = "failed"
        /\ error = Some("AttributeError")
        /\ result = None
        /\ install_order = None
        /\ d2_content = None

C9_Witness ==
    /\ pc = "failed"
    /\ Len(calls) >= 2
    /\ \E i \in DOMAIN graph : graph[i].deps # <<>>

\* ------------------------------------------------------------------- C10

RECURSIVE SplitLines(_)
SplitLines(text) ==
    IF \E i \in DOMAIN text : text[i] = "\n"
    THEN LET k == CHOOSE i \in DOMAIN text :
                      text[i] = "\n" /\ \A j \in 1..(i - 1) : text[j] # "\n"
         IN <<SubSeq(text, 1, k - 1)>> \o SplitLines(SubSeq(text, k + 1, Len(text)))
    ELSE <<text>>

\* The number of lines the items before position i account for.
RECURSIVE LinesBefore(_, _)
LinesBefore(g, i) ==
    IF i <= 1 THEN 0
    ELSE LinesBefore(g, i - 1)
           + (IF g[i - 1].deps = <<>> THEN 1 ELSE Len(g[i - 1].deps))

\* C10: the text is `direction: right`, then for each key in stored order one
\* quoted node line if it has no dependencies and otherwise one edge line per
\* dependency in stored order, and nothing else: 1 + (keys without
\* dependencies) + (edges) lines.
C10_RenderedLines ==
    d2_content # None =>
        LET lines == SplitLines(d2_content[1])
            g == ResolvedGraph
        IN /\ lines[1] = <<"d", "i", "r", "e", "c", "t", "i", "o", "n", ":", " ",
                           "r", "i", "g", "h", "t">>
           /\ Len(lines) = 1 + Cardinality({i \in DOMAIN g : g[i].deps = <<>>})
                             + Cardinality(UNION {{<<i, j>> : j \in DOMAIN g[i].deps} :
                                                    i \in DOMAIN g})
           /\ \A i \in DOMAIN g :
                 IF g[i].deps = <<>>
                 THEN lines[LinesBefore(g, i) + 2] = <<"\"">> \o g[i].pkg \o <<"\"">>
                 ELSE \A j \in DOMAIN g[i].deps :
                         lines[LinesBefore(g, i) + 1 + j] =
                             <<"\"">> \o g[i].pkg \o <<"\"", " ", "-", ">", " ", "\"">>
                                 \o g[i].deps[j] \o <<"\"">>

C10_Witness ==
    /\ d2_content # None
    /\ \E i, j \in DOMAIN ResolvedGraph :
          /\ i < j
          /\ Len(ResolvedGraph[i].deps) >= 2
          /\ ResolvedGraph[j].deps = <<>>

\* ------------------------------------------------------------------- C11

OperatorChars == {"=", ">", "<", "!"}

\* The part of an entry before its first version-comparison operator character.
NameOf(entry) ==
    IF \E i \in DOMAIN entry : entry[i] \in OperatorChars
    THEN SubSeq(entry, 1, (CHOOSE i \in DOMAIN entry :
                              /\ entry[i] \in OperatorChars
                              /\ \A j \in 1..(i - 1) : entry[j] \notin OperatorChars) - 1)
    ELSE entry

\* C11: the remote lookup returns, for every D entry not prefixed so:, exactly
\* the part before the first operator character (=, >, <, !), two-character
\* operators such as >= and <= included, and omits the so: entries.
C11_OperatorsStripped ==
    (apk_deps # None /\ apk_deps[1].kind = "list") =>
        LET entries == SelectSeq(SplitBlanks(packages[1].D),
                                 LAMBDA e : ~StartsWith(e, <<"s", "o", ":">>))
        IN apk_deps[1].deps = [i \in DOMAIN entries |-> NameOf(entries[i])]

\* ------------------------------------------------------------------- C12

\* C12: two calls of resolve with the same source and the same inputs return
\* identical graphs: the same keys in the same order, each with the same
\* dependency list.
C12_SameGraphTwice ==
    (previous # None /\ result # None) => result = previous

C12_Witness ==
    /\ previous # None
    /\ result # None
    /\ Len(ResolvedGraph) >= 2
    /\ \E i \in DOMAIN ResolvedGraph : Len(ResolvedGraph[i].deps) >= 2

\* ------------------------------------------------------------------- C13

NoRepeats(seq) == \A i, j \in DOMAIN seq : seq[i] = seq[j] => i = j

\* C13: no key's dependency list in the resolved graph holds the same name
\* twice, whatever the source, also when a lookup list repeats a name.
C13_NoDuplicateDependencies ==
    \A i \in DOMAIN graph : NoRepeats(graph[i].deps)

\* ------------------------------------------------------------------- C14

\* The dependency edges of the source that the filter keeps.
FilteredSource(n) ==
    SelectSeq(SourceList(n), LAMBDA d : ~Contains(config.filter_substring, d))

\* The names at distance at most k from the root along those edges.
RECURSIVE Within(_)
Within(k) ==
    IF k = 0 THEN {Root}
    ELSE LET W == Within(k - 1)
         IN W \cup UNION {{FilteredSource(n)[j] : j \in DOMAIN FilteredSource(n)} : n \in W}

ExpandedNames == IF config.depth = 0 THEN {} ELSE Within(config.depth - 1)

CutoffNames == Within(config.depth) \ ExpandedNames

\* C14: the keys of the returned graph are exactly the names at distance
\* strictly less than maxDepth from the root along the filtered dependency
\* edges; a name at distance exactly maxDepth is never looked up and is no key,
\* though it is an edge target.
C14_HardDepthCutoff ==
    result # None =>
        /\ DictKeys(ResolvedGraph) = ExpandedNames
        /\ \A n \in CutoffNames :
              /\ n \notin CalledNames
              /\ n \notin DictKeys(ResolvedGraph)
              /\ config.depth >= 1 => \E e \in Edges(ResolvedGraph) : e[2] = n

C14_Witness ==
    /\ result # None
    /\ config.depth = 2
    /\ \E n \in CutoffNames : FilteredSource(n) # <<>>

\* ------------------------------------------------------------------- C15

\* C15: every name is enqueued at most once (only when it is not yet in
\* VisitedSet, which only grows), so it is looked up at most once, and
\* graph[name] is written once and never overwritten: the graph only grows at
\* its end, by a new key.
C15_FirstDiscoveryWins ==
    /\ [](NoRepeats([i \in DOMAIN queue |-> queue[i][1]]))
    /\ [](NoRepeats([i \in DOMAIN calls |-> calls[i].name]))
    /\ [](NoRepeats([i \in DOMAIN graph |-> graph[i].pkg]))
    /\ [](pc = "resolve" => QueuedNames \cap CalledNames = {})
    /\ [][/\ visited \subseteq visited'
          /\ \A n \in Names :
                (n \in {queue'[i][1] : i \in DOMAIN queue'} /\ n \notin QueuedNames)
                    => n \notin visited
          /\ Len(graph') >= Len(graph)
          /\ \A i \in DOMAIN graph : graph'[i] = graph[i]]_vars

C15_Witness ==
    /\ result # None
    /\ Len(calls) >= 2
    /\ <<Root, Root>> \in Edges(graph)
    /\ \E e \in Edges(graph) : e[1] # e[2] /\ ClosesCycle(graph, e[1], e[2])

\* ------------------------------------------------------------------- C16

\* C16: every lookup is made with root.version for the root name and with
\* "1.0" for every other name.
C16_LookupVersions ==
    \A i \in DOMAIN calls :
        calls[i].version =
            IF calls[i].name = config.package_name THEN config.package_version ELSE "1.0"

C16_Witness ==
    /\ Len(calls) >= 3
    /\ \E i \in DOMAIN calls :
          /\ calls[i].name # Root
          /\ repo[calls[i].name].kind = "pkg"
          /\ repo[calls[i].name].version = "2.0"

\* ------------------------------------------------------------------- C17

\* C17: sequence and render leave the graph as it was: same keys, same order,
\* same dependency lists.
C17_GraphIsReadOnly ==
    [][(pc \in {"sequence", "render"}) => (result' = result)]_vars

C17_Witness ==
    /\ d2_content # None
    /\ \E i \in DOMAIN InstallOrder : InstallOrder[i] \notin DictKeys(ResolvedGraph)
    /\ ResolvedGraph # <<>>

\* ------------------------------------------------------------------- C18

\* C18: the install order is never empty and ends with start; when start is no
\* key of the graph the order is exactly [start].
C18_StartIsLast ==
    install_order # None =>
        /\ Len(InstallOrder) >= 1
        /\ InstallOrder[Len(InstallOrder)] = Root
        /\ Root \notin DictKeys(ResolvedGraph) => InstallOrder = <<Root>>

C18_Witness ==
    /\ install_order # None
    /\ Root \notin DictKeys(ResolvedGraph)
    /\ SourceList(Root) # <<>>

\* ------------------------------------------------------------------- C19

\* C19: during resolve VisitedSet only grows and holds the root, every key and
\* every queued name; the queued depths never decrease from head to tail and
\* differ by at most 1.
C19_ResolverInvariant ==
    /\ [][visited \subseteq visited']_vars
    /\ [](/\ Root \in visited
          /\ DictKeys(graph) \subseteq visited
          /\ QueuedNames \subseteq visited
          /\ \A i, j \in DOMAIN queue :
                i < j => (queue[i][2] <= queue[j][2] /\ queue[j][2] - queue[i][2] <= 1))

C19_Witness ==
    /\ pc = "resolve"
    /\ Len(queue) >= 2
    /\ queue[1][2] < queue[Len(queue)][2]
    /\ Len(graph) >= 2

====
